---- MODULE Spec2Model ----
(***************************************************************************)
(* Multi-user todo platform: the FastAPI backend (backend/main.py) as the  *)
(* README, the REST client (frontend/src/lib/api.ts) and the screens' API  *)
(* notes describe it.  backend/main.py itself is not among the sources, so *)
(* the handlers are modelled from the written design; where the README     *)
(* states what the backend does (verification token value, duplicate       *)
(* e-mail handling, token lifetime, admin seeding) the README is followed. *)
(***************************************************************************)
EXTENDS Integers, Sequences, FiniteSets, TLC

(***************************************************************************)
(* Bounds of the model.                                                    *)
(***************************************************************************)
MaxUsers == 3
MaxTodos == 1
MaxJwts == 1
MaxTicks == 2
MaxLoginRequests == 2
MaxInflight == 2
MaxSessions == 2
MaxCalls == 2
MaxShown == 2

(***************************************************************************)
(* Program constants.                                                      *)
(***************************************************************************)
ACCESS_TOKEN_EXPIRE_MINUTES == 60
MinPasswordLength == 8
SESSION_TTL_SECONDS == 3600

\* seconds between two observations of the wall clock in the model
TickSeconds == 1800

(***************************************************************************)
(* Input alphabets.  An e-mail is a sequence of character codes so that    *)
(* case folding and the '@' test are computed, not assumed.                *)
(***************************************************************************)
AtSign == 64
Emails == { <<97, 64, 120>>, <<65, 64, 120>>, <<98, 64, 120>>, <<97, 120>> }
AdminEmail == <<114, 64, 120>>
Passwords == { "password123", "short12" }
AdminPassword == "password123"
WrongPassword == "hunter2222"
TokenInputs == { "a1", "zz", "" }
Tri == { "true", "false", "absent" }
\* query strings of PATCH /admin/users/{id}: nothing, one flag, or all three
PatchInputs ==
    { q \in Tri \X Tri \X Tri :
        \/ Cardinality({ i \in 1..3 : q[i] # "absent" }) <= 1
        \/ q \in { <<"true", "true", "true">>, <<"false", "false", "false">> } }
\* the addresses tried where the admin routes are exercised
FewEmails == { <<97, 64, 120>>, <<97, 120>> }

NoCred == [sub |-> <<>>, adm |-> FALSE, exp |-> 0]
NoUser == 0
NoSession == 0

LowerChar(c) == IF c >= 65 /\ c <= 90 THEN c + 32 ELSE c
Lower(e) == [i \in 1..Len(e) |-> LowerChar(e[i])]
ValidEmail(e) == \E i \in 1..Len(e) : e[i] = AtSign

(***************************************************************************)
(* Password hasher: opaque salted hash, verify succeeds only for the       *)
(* original password.                                                      *)
(***************************************************************************)
Salts == {1, 2}
FewSalts == {1}
HashPassword(password, salt) == [alg |-> "pbkdf2_sha256", salt |-> salt, digest |-> <<salt, password>>]
VerifyPassword(password, h) == h.digest = <<h.salt, password>>

\* client identities of the unauthenticated endpoints (IP addresses)
Ips == { 1, 2 }
\* what the observer has seen of one identity's current window
NoBudget == [start |-> -1, admitted |-> 0, rejected |-> FALSE]
\* browsers showing the Admin Users screen
Editors == { 1, 2 }
Flags == [is_admin : BOOLEAN, email_verified : BOOLEAN, is_active : BOOLEAN]
NoSelection == [id |-> 0, is_admin |-> FALSE, email_verified |-> FALSE, is_active |-> TRUE]
\* React state of the screen: selectedUser and formData
ClosedDrawer ==
    [selectedUser |-> NoSelection,
     formData |-> [is_admin |-> FALSE, email_verified |-> FALSE, is_active |-> TRUE]]

(***************************************************************************)
(* The browser.  A string kept under access_token is described by what     *)
(* decodeJwt can make of it: segments counts its dot-separated parts (0:   *)
(* the empty string) and payload is what atob and JSON.parse give for the  *)
(* second part (NoCred: they throw, or the object carries no claim; a      *)
(* payload with exp 0 has no usable exp claim).                            *)
(***************************************************************************)
NoEmail == <<>>
\* "user", myTodos when no e-mail is stored
UserLiteral == <<117, 115, 101, 114>>
Jwt(payload) == [segments |-> 3, payload |-> payload]
Garbage == [segments |-> 1, payload |-> NoCred]
EmptyString == [segments |-> 0, payload |-> NoCred]
\* localStorage.getItem: null, or the string kept under the key
NullToken == [present |-> FALSE, value |-> EmptyString]
NullEmail == [present |-> FALSE, value |-> NoEmail]
Item(v) == [present |-> TRUE, value |-> v]
EmptyStorage == [token |-> NullToken, email |-> NullEmail]
\* window.location.search: ?page= and ?token=
NoUrl == [page |-> "", hasToken |-> FALSE, token |-> ""]
\* React state of App: currentUser null, currentPage "login"
Pages == { "register", "verify-email", "simple", "login", "my-todos", "profile",
           "settings", "users", "all-todos" }
NoCurrentUser == [email |-> NoEmail, role |-> "", isVerified |-> FALSE]
InitialApp == [mounted |-> TRUE, currentPage |-> "login", currentUser |-> NoCurrentUser,
               pendingVerificationEmail |-> NoEmail]
\* what a page load can find under access_token and current_email
StoredTokens ==
    { NullToken, Item(EmptyString), Item(Garbage), Item(Jwt(NoCred)),
      Item(Jwt([sub |-> <<97, 64, 120>>, adm |-> FALSE, exp |-> TickSeconds])),
      Item(Jwt([sub |-> AdminEmail, adm |-> TRUE, exp |-> 2 * TickSeconds])) }
StoredEmails == { NullEmail, Item(<<97, 64, 120>>) }
\* the addresses the app is opened with
Urls ==
    { [page |-> p, hasToken |-> t[1], token |-> t[2]] :
        p \in { "", "verify-email", "simple" },
        t \in { <<FALSE, "">>, <<TRUE, "">>, <<TRUE, "a1">> } }
\* React state of the VerifyEmail screen
VerifyIdle == [status |-> "idle", loading |-> FALSE, tokenInput |-> ""]
NoVerifyScreen == [mounted |-> FALSE] @@ VerifyIdle
\* React state of MyTodos once its load effect has found no todos; created
\* counts the todos the server has made for this user
LoadedEmpty == [todos |-> << >>, loading |-> FALSE, created |-> 0]
\* no request built yet
NoRequest == [op |-> "", editor |-> 0, authorization |-> NullToken, target |-> 0,
              make_admin |-> "absent", verify_email |-> "absent", deactivate |-> "absent"]

VARIABLES users, tokens, todos, nextTodoId, jwts, now, resp, issued, presented,
          limiter, budget, inflight, sessions, loggedOut, drawer,
          storage, url, app, loginCalls, verifyScreen, verifyCalls, myTodos, todoCalls, wire

vars == <<users, tokens, todos, nextTodoId, jwts, now, resp, issued, presented,
          limiter, budget, inflight, sessions, loggedOut, drawer,
          storage, url, app, loginCalls, verifyScreen, verifyCalls, myTodos, todoCalls, wire>>

\* the browser: localStorage, the address bar, the React state of App and of
\* its screens, the calls of the API client that wait for their response, and
\* the last request the API client built
client == <<storage, url, app, loginCalls, verifyScreen, verifyCalls, myTodos, todoCalls, wire>>
\* the backend's tables and clock
server == <<users, tokens, todos, nextTodoId, jwts, now, resp, issued, presented>>
\* the rate limiter's table, the session store and the Admin Users drawers
middleware == <<limiter, budget, inflight, sessions, loggedOut, drawer>>

\* the rate limiter's table, the session store and the admin screens' state:
\* left alone by a request that is below the limit, carries no cookie and
\* does not come from the Admin Users screen
extras == <<middleware, client>>

(***************************************************************************)
(* Credential store.  users is the users table, indexed by id.             *)
(***************************************************************************)
UserIds == 1..Len(users)
NewUser(id, email, password, salt) ==
    [id |-> id, email |-> email, password_hash |-> HashPassword(password, salt),
     is_admin |-> FALSE, email_verified |-> FALSE, is_active |-> TRUE]
SeedAdmin ==
    [id |-> 1, email |-> AdminEmail, password_hash |-> HashPassword(AdminPassword, 1),
     is_admin |-> TRUE, email_verified |-> TRUE, is_active |-> TRUE]
FindByEmail(email) ==
    IF \E i \in UserIds : Lower(users[i].email) = Lower(email)
    THEN CHOOSE i \in UserIds : Lower(users[i].email) = Lower(email)
    ELSE NoUser
ExactEmailExists(email) == \E i \in UserIds : users[i].email = email
FoldedEmailExists(email) == \E i \in UserIds : Lower(users[i].email) = Lower(email)

(***************************************************************************)
(* Verification token service.                                             *)
(***************************************************************************)
IssueToken(user_id) == "a1"
MatchingTokens(token) == { r \in tokens : r.token = token }

ServerInit ==
    /\ users = << SeedAdmin >>
    /\ tokens = {}
    /\ todos = {}
    /\ nextTodoId = 1
    /\ jwts = {}
    /\ now = 0
    /\ resp = [op |-> "none", status |-> 0]
    /\ issued = {}
    /\ presented = {}
    /\ limiter = {}
    /\ budget = [ip \in Ips |-> NoBudget]
    /\ inflight = {}
    /\ sessions = {}
    /\ loggedOut = {}
    /\ drawer = [ed \in Editors |-> ClosedDrawer]

Init ==
    /\ ServerInit
    /\ storage = EmptyStorage
    /\ url = NoUrl
    /\ app = InitialApp
    /\ loginCalls = {}
    /\ verifyScreen = NoVerifyScreen
    /\ verifyCalls = {}
    /\ myTodos = LoadedEmpty
    /\ todoCalls = {}
    /\ wire = NoRequest

(***************************************************************************)
(* POST /auth/register                                                     *)
(***************************************************************************)
Register(email, password, salt) ==
    /\ UNCHANGED <<todos, nextTodoId, jwts, now, presented>>
    /\ UNCHANGED extras
    /\ IF ~ValidEmail(email) \/ Len(password) < MinPasswordLength
       THEN /\ resp' = [op |-> "register", status |-> 400, email |-> email,
                        user_id |-> NoUser, token |-> ""]
            /\ UNCHANGED <<users, tokens, issued>>
       ELSE IF ExactEmailExists(email)
       THEN /\ resp' = [op |-> "register", status |-> 409, email |-> email,
                        user_id |-> NoUser, token |-> ""]
            /\ UNCHANGED <<users, tokens, issued>>
       ELSE IF FoldedEmailExists(email)
       THEN /\ resp' = [op |-> "register", status |-> 500, email |-> email,
                        user_id |-> NoUser, token |-> ""]
            /\ UNCHANGED <<users, tokens, issued>>
       ELSE /\ Len(users) < MaxUsers
            /\ LET id == Len(users) + 1
                   tok == IssueToken(id)
               IN /\ users' = Append(users, NewUser(id, email, password, salt))
                  /\ tokens' = tokens \cup { [token |-> tok, user_id |-> id] }
                  /\ issued' = issued \cup { <<tok, id>> }
                  /\ resp' = [op |-> "register", status |-> 201, email |-> email,
                              user_id |-> id, token |-> tok]

(***************************************************************************)
(* GET /auth/verify-email?token=                                           *)
(* consume: one check-and-invalidate step; the row picked among equal      *)
(* tokens is whichever the query returns first.                            *)
(***************************************************************************)
VerifyEmail(token) ==
    /\ UNCHANGED <<todos, nextTodoId, jwts, now, issued>>
    /\ UNCHANGED extras
    /\ IF token = ""
       THEN /\ resp' = [op |-> "verify", status |-> 400, token |-> token, user_id |-> NoUser]
            /\ UNCHANGED <<users, tokens, presented>>
       ELSE IF MatchingTokens(token) = {}
       THEN /\ resp' = [op |-> "verify", status |-> 404, token |-> token, user_id |-> NoUser]
            /\ UNCHANGED <<users, tokens, presented>>
       ELSE \E r \in MatchingTokens(token) :
            /\ users' = [users EXCEPT ![r.user_id].email_verified = TRUE]
            /\ tokens' = tokens \ {r}
            /\ presented' = presented \cup { p \in issued : p[1] = token }
            /\ resp' = [op |-> "verify", status |-> 200, token |-> token, user_id |-> r.user_id]

(***************************************************************************)
(* Bearer credential: claims of the signed token.  Only tokens the server  *)
(* signed verify, so a request presents a member of jwts or no credential. *)
(***************************************************************************)
MintJwt(u) ==
    [sub |-> u.email, adm |-> u.is_admin, exp |-> now + ACCESS_TOKEN_EXPIRE_MINUTES * 60]
JwtExpired(cred) == cred.exp <= now

(***************************************************************************)
(* POST /auth/login                                                        *)
(***************************************************************************)
\* slip: the password is compared before the verification flag is looked at
LoginStatus_PasswordFirst(email, password) ==
    LET id == FindByEmail(email)
    IN IF id = NoUser THEN 400
       ELSE IF ~VerifyPassword(password, users[id].password_hash) THEN 400
       ELSE IF ~users[id].email_verified THEN 403
       ELSE IF ~users[id].is_active THEN 400
       ELSE 200
\* slip: is_active is not looked at
LoginStatus_NoActiveCheck(email, password) ==
    LET id == FindByEmail(email)
    IN IF id = NoUser THEN 400
       ELSE IF ~users[id].email_verified THEN 403
       ELSE IF ~VerifyPassword(password, users[id].password_hash) THEN 400
       ELSE 200
LoginStatus(email, password) ==
    LET id == FindByEmail(email)
    IN IF id = NoUser THEN 400
       ELSE IF ~users[id].email_verified THEN 403
       ELSE IF ~VerifyPassword(password, users[id].password_hash) THEN 400
       ELSE IF ~users[id].is_active THEN 400
       ELSE 200

\* the short message of the response (detail)
\* slip: the message names the factor that failed
LoginDetail_NamesFactor(email, password) ==
    LET id == FindByEmail(email)
    IN IF id = NoUser THEN "user not found"
       ELSE IF ~users[id].email_verified THEN "email not verified"
       ELSE IF ~VerifyPassword(password, users[id].password_hash) THEN "wrong password"
       ELSE IF ~users[id].is_active THEN "bad credentials"
       ELSE ""
LoginDetail(email, password) ==
    LET id == FindByEmail(email)
    IN IF id = NoUser THEN "bad credentials"
       ELSE IF ~users[id].email_verified THEN "email not verified"
       ELSE IF ~VerifyPassword(password, users[id].password_hash) THEN "bad credentials"
       ELSE IF ~users[id].is_active THEN "bad credentials"
       ELSE ""

LoginRoute(email, password) ==
    /\ UNCHANGED <<users, tokens, todos, nextTodoId, now, issued, presented>>
    /\ LET st == LoginStatus(email, password)
       IN IF st = 200
          THEN LET jwt == MintJwt(users[FindByEmail(email)])
               IN /\ jwt \in jwts \/ Cardinality(jwts) < MaxJwts
                  /\ jwts' = jwts \cup {jwt}
                  /\ resp' = [op |-> "login", status |-> 200, email |-> email,
                              password |-> password, access_token |-> jwt,
                              detail |-> LoginDetail(email, password)]
          ELSE /\ jwts' = jwts
               /\ resp' = [op |-> "login", status |-> st, email |-> email,
                           password |-> password, access_token |-> NoCred,
                           detail |-> LoginDetail(email, password)]

\* a login that the rate limiter lets through without counting it against a
\* budget under observation
Login(email, password) == LoginRoute(email, password) /\ UNCHANGED extras

(***************************************************************************)
(* Authorization middleware: validate the credential, resolve it to a live *)
(* user record, then apply the route's rule.                               *)
(***************************************************************************)
\* slip: the credential is decoded but the user's is_active is not looked up
Authenticate_NoActiveCheck(cred) ==
    IF cred = NoCred \/ cred \notin jwts THEN NoUser
    ELSE IF JwtExpired(cred) THEN NoUser
    ELSE FindByEmail(cred.sub)
Authenticate(cred) ==
    IF cred = NoCred \/ cred \notin jwts THEN NoUser
    ELSE IF JwtExpired(cred) THEN NoUser
    ELSE LET id == FindByEmail(cred.sub)
         IN IF id = NoUser THEN NoUser
            ELSE IF ~users[id].is_active THEN NoUser
            ELSE id
\* slip: the role is read from the token's adm claim, not from the user record
IsAdminCaller_FromClaim(cred, id) == cred.adm
IsAdminCaller(cred, id) == users[id].is_admin
\* slip: any authenticated caller passes
AdminGate_NoRoleCheck(cred) ==
    IF Authenticate(cred) = NoUser THEN 401 ELSE 200
AdminGate(cred) ==
    LET id == Authenticate(cred)
    IN IF id = NoUser THEN 401 ELSE IF ~IsAdminCaller(cred, id) THEN 403 ELSE 200

Creds == jwts \cup {NoCred}
TodoIds == 1..MaxTodos
OwnedTodos(id) == { t \in todos : t.owner_id = id }
TodoById(tid) == CHOOSE t \in todos : t.id = tid

(***************************************************************************)
(* /todos routes (owner scoped)                                            *)
(***************************************************************************)
ListMyTodos(cred) ==
    /\ UNCHANGED <<users, tokens, todos, nextTodoId, jwts, now, issued, presented>>
    /\ UNCHANGED extras
    /\ LET id == Authenticate(cred)
       IN IF id = NoUser
          THEN resp' = [op |-> "list_todos", status |-> 401, cred |-> cred, todo_id |-> 0, body |-> {}]
          ELSE resp' = [op |-> "list_todos", status |-> 200, cred |-> cred, todo_id |-> 0,
                        body |-> OwnedTodos(id)]

CreateTodo(cred) ==
    /\ UNCHANGED <<users, tokens, jwts, now, issued, presented>>
    /\ UNCHANGED extras
    /\ LET id == Authenticate(cred)
       IN IF id = NoUser
          THEN /\ resp' = [op |-> "create_todo", status |-> 401, cred |-> cred, todo_id |-> 0, body |-> {}]
               /\ UNCHANGED <<todos, nextTodoId>>
          ELSE /\ nextTodoId <= MaxTodos
               /\ LET t == [id |-> nextTodoId, owner_id |-> id, done |-> FALSE]
                  IN /\ todos' = todos \cup {t}
                     /\ nextTodoId' = nextTodoId + 1
                     /\ resp' = [op |-> "create_todo", status |-> 201, cred |-> cred,
                                 todo_id |-> t.id, body |-> {t}]

\* slip: the todo is looked up by id alone
OwnerGate_NoOwnerCheck(cred, tid) ==
    LET id == Authenticate(cred)
    IN IF id = NoUser THEN 401
       ELSE IF ~(\E t \in todos : t.id = tid) THEN 404
       ELSE 200
OwnerGate(cred, tid) ==
    LET id == Authenticate(cred)
    IN IF id = NoUser THEN 401
       ELSE IF ~(\E t \in todos : t.id = tid) THEN 404
       ELSE IF TodoById(tid).owner_id # id THEN 403
       ELSE 200

UpdateTodo(cred, tid, done) ==
    /\ UNCHANGED <<users, tokens, nextTodoId, jwts, now, issued, presented>>
    /\ UNCHANGED extras
    /\ LET st == OwnerGate(cred, tid)
       IN IF st = 200
          THEN LET t == [TodoById(tid) EXCEPT !.done = done]
               IN /\ todos' = (todos \ {TodoById(tid)}) \cup {t}
                  /\ resp' = [op |-> "update_todo", status |-> 200, cred |-> cred,
                              todo_id |-> tid, body |-> {t}]
          ELSE /\ todos' = todos
               /\ resp' = [op |-> "update_todo", status |-> st, cred |-> cred,
                           todo_id |-> tid, body |-> {}]

DeleteTodo(cred, tid) ==
    /\ UNCHANGED <<users, tokens, nextTodoId, jwts, now, issued, presented>>
    /\ UNCHANGED extras
    /\ LET st == OwnerGate(cred, tid)
       IN IF st = 200
          THEN /\ todos' = todos \ {TodoById(tid)}
               /\ resp' = [op |-> "delete_todo", status |-> 204, cred |-> cred,
                           todo_id |-> tid, body |-> {}]
          ELSE /\ todos' = todos
               /\ resp' = [op |-> "delete_todo", status |-> st, cred |-> cred,
                           todo_id |-> tid, body |-> {}]

(***************************************************************************)
(* /admin routes (admin only)                                              *)
(***************************************************************************)
AdminListUsers(cred) ==
    /\ UNCHANGED <<users, tokens, todos, nextTodoId, jwts, now, issued, presented>>
    /\ UNCHANGED extras
    /\ LET st == AdminGate(cred)
       IN resp' = [op |-> "admin_list_users", status |-> st, cred |-> cred, target |-> 0,
                   body |-> IF st = 200 THEN { users[i] : i \in UserIds } ELSE {}]

ApplyFlag(old, param) == IF param = "absent" THEN old ELSE param = "true"
ApplyDeactivate(old, param) == IF param = "absent" THEN old ELSE ~(param = "true")
PatchUser(u, make_admin, verify_email, deactivate) ==
    [u EXCEPT !.is_admin = ApplyFlag(u.is_admin, make_admin),
              !.email_verified = ApplyFlag(u.email_verified, verify_email),
              !.is_active = ApplyDeactivate(u.is_active, deactivate)]

PatchUserRoute(cred, target, make_admin, verify_email, deactivate) ==
    /\ UNCHANGED <<tokens, todos, nextTodoId, jwts, now, issued, presented>>
    /\ LET st == AdminGate(cred)
       IN IF st # 200
          THEN /\ users' = users
               /\ resp' = [op |-> "admin_update_user", status |-> st, cred |-> cred,
                           target |-> target, body |-> {}]
          ELSE IF target \notin UserIds
          THEN /\ users' = users
               /\ resp' = [op |-> "admin_update_user", status |-> 404, cred |-> cred,
                           target |-> target, body |-> {}]
          ELSE LET u == PatchUser(users[target], make_admin, verify_email, deactivate)
               IN /\ users' = [users EXCEPT ![target] = u]
                  /\ resp' = [op |-> "admin_update_user", status |-> 200, cred |-> cred,
                              target |-> target, body |-> {u}]

\* the PATCH sent by any client other than the Admin Users screen
AdminUpdateUser(cred, target, make_admin, verify_email, deactivate) ==
    PatchUserRoute(cred, target, make_admin, verify_email, deactivate) /\ UNCHANGED extras

AdminListTodos(cred) ==
    /\ UNCHANGED <<users, tokens, todos, nextTodoId, jwts, now, issued, presented>>
    /\ UNCHANGED extras
    /\ LET st == AdminGate(cred)
       IN resp' = [op |-> "admin_list_todos", status |-> st, cred |-> cred, target |-> 0,
                   body |-> IF st = 200 THEN todos ELSE {}]

AdminDeleteTodo(cred, tid) ==
    /\ UNCHANGED <<users, tokens, nextTodoId, jwts, now, issued, presented>>
    /\ UNCHANGED extras
    /\ LET st == AdminGate(cred)
       IN IF st # 200
          THEN /\ todos' = todos
               /\ resp' = [op |-> "admin_delete_todo", status |-> st, cred |-> cred,
                           target |-> tid, body |-> {}]
          ELSE IF ~(\E t \in todos : t.id = tid)
          THEN /\ todos' = todos
               /\ resp' = [op |-> "admin_delete_todo", status |-> 404, cred |-> cred,
                           target |-> tid, body |-> {}]
          ELSE /\ todos' = todos \ {TodoById(tid)}
               /\ resp' = [op |-> "admin_delete_todo", status |-> 204, cred |-> cred,
                           target |-> tid, body |-> {}]

(***************************************************************************)
(* Wall clock                                                              *)
(***************************************************************************)
Tick ==
    /\ now < MaxTicks * TickSeconds
    /\ now' = now + TickSeconds
    /\ resp' = [op |-> "tick", status |-> 0]
    /\ UNCHANGED <<users, tokens, todos, nextTodoId, jwts, issued, presented>>
    /\ UNCHANGED extras

LoginEmails == { e \in Emails : ValidEmail(e) } \cup {AdminEmail}
FewLoginEmails == { e \in FewEmails : ValidEmail(e) } \cup {AdminEmail}
LoginPasswords == { AdminPassword, WrongPassword }

(***************************************************************************)
(* The client discards its bearer token (logout clears localStorage); the  *)
(* server keeps no revocation list.                                        *)
(***************************************************************************)
Discard(cred) ==
    /\ cred \in jwts
    /\ jwts' = jwts \ {cred}
    /\ resp' = [op |-> "discard", status |-> 0]
    /\ UNCHANGED <<users, tokens, todos, nextTodoId, now, issued, presented>>
    /\ UNCHANGED extras

Next ==
    \/ \E e \in FewEmails, p \in Passwords, s \in FewSalts : Register(e, p, s)
    \/ \E t \in TokenInputs : VerifyEmail(t)
    \/ \E e \in FewLoginEmails, p \in LoginPasswords : Login(e, p)
    \/ \E c \in Creds : ListMyTodos(c)
    \/ \E c \in Creds : CreateTodo(c)
    \/ \E c \in Creds, tid \in TodoIds, d \in BOOLEAN : UpdateTodo(c, tid, d)
    \/ \E c \in Creds, tid \in TodoIds : DeleteTodo(c, tid)
    \/ \E c \in Creds : AdminListUsers(c)
    \/ \E c \in Creds, id \in 1..MaxUsers, q \in PatchInputs :
          AdminUpdateUser(c, id, q[1], q[2], q[3])
    \/ \E c \in Creds : AdminListTodos(c)
    \/ \E c \in Creds, tid \in TodoIds : AdminDeleteTodo(c, tid)
    \/ \E c \in jwts : Discard(c)

Spec == Init /\ [][Next]_vars

(***************************************************************************)
(* The public routes and GET /todos while the wall clock advances, with    *)
(* enough addresses for two accounts to be pending verification at once.   *)
(***************************************************************************)
NextAuth ==
    \/ \E e \in Emails, p \in Passwords, s \in Salts : Register(e, p, s)
    \/ \E t \in TokenInputs : VerifyEmail(t)
    \/ \E e \in LoginEmails, p \in LoginPasswords : Login(e, p)
    \/ \E c \in Creds : ListMyTodos(c)
    \/ \E c \in jwts : Discard(c)
    \/ Tick

SpecAuth == Init /\ [][NextAuth]_vars

(***************************************************************************)
(* The routes that read or write an account: registration, verification,   *)
(* login, the admin's PATCH and logout.                                     *)
(***************************************************************************)
NextAccounts ==
    \/ \E e \in FewEmails, p \in Passwords, s \in FewSalts : Register(e, p, s)
    \/ \E t \in TokenInputs : VerifyEmail(t)
    \/ \E e \in FewLoginEmails, p \in LoginPasswords : Login(e, p)
    \/ \E c \in Creds, id \in 1..MaxUsers, q \in PatchInputs :
          AdminUpdateUser(c, id, q[1], q[2], q[3])
    \/ \E c \in jwts : Discard(c)

SpecAccounts == Init /\ [][NextAccounts]_vars

(***************************************************************************)
(* Rate limiter (SimpleRateLimiter): a fixed-window counter per             *)
(* (endpoint class, client identity).  It runs as middleware: a request     *)
(* over the limit is answered 429, any other is counted and passed on to    *)
(* its route handler, which runs later and possibly beside other requests.  *)
(***************************************************************************)
LoginWindowSeconds == TickSeconds
\* slip: one counter per endpoint class, shared by every client
LimiterKey_PerClass(class, identity) == <<class, 0>>
LimiterKey(class, identity) == <<class, identity>>
\* slip: a window never ends
WindowElapsed_Never(start) == FALSE
WindowElapsed(start) == now - start >= LoginWindowSeconds
LiveRows(key) == { r \in limiter : r.key = key /\ ~WindowElapsed(r.start) }
Count(key) == IF LiveRows(key) = {} THEN 0 ELSE (CHOOSE r \in LiveRows(key) : TRUE).count
Allowed(key) == Count(key) < MaxLoginRequests
\* slip: a second hit writes back the count it read before the first was stored
Incremented_Lost(count) == IF count = 0 THEN 1 ELSE count
Incremented(count) == count + 1
\* the stale row of the key, if any, is evicted on access
Hit(key) ==
    { r \in limiter : r.key # key }
      \cup { [key |-> key,
              start |-> IF LiveRows(key) = {} THEN now
                        ELSE (CHOOSE r \in LiveRows(key) : TRUE).start,
              count |-> Incremented(Count(key))] }
\* slip: the request is passed on although it was answered 429
Forwarded_Always(admit, req) == {req}
Forwarded(admit, req) == IF admit THEN {req} ELSE {}

\* observer's record of one identity's window, kept apart from the limiter
Observe(ip, admit) ==
    LET b == budget[ip]
        fresh == b.start = -1 \/ now - b.start >= LoginWindowSeconds
        base == IF fresh THEN [start |-> now, admitted |-> 0, rejected |-> FALSE] ELSE b
    IN [budget EXCEPT ![ip] =
          [base EXCEPT !.admitted = @ + (IF admit THEN 1 ELSE 0),
                       !.rejected = @ \/ ~admit]]
OwnAdmitted(ip) ==
    IF budget[ip].start = -1 \/ now - budget[ip].start >= LoginWindowSeconds
    THEN 0 ELSE budget[ip].admitted

\* POST /auth/login arrives at the middleware
RateLimit(ip, email, password) ==
    LET key == LimiterKey("login", ip)
        admit == Allowed(key)
        req == [ip |-> ip, email |-> email, password |-> password]
    IN /\ admit => (req \notin inflight /\ Cardinality(inflight) < MaxInflight)
       /\ limiter' = IF admit THEN Hit(key) ELSE limiter
       /\ budget' = Observe(ip, admit)
       /\ inflight' = inflight \cup Forwarded(admit, req)
       /\ resp' = [op |-> "rate_limit", status |-> IF admit THEN 0 ELSE 429,
                   ip |-> ip, email |-> email, password |-> password,
                   recovered |-> /\ admit
                                 /\ budget[ip].rejected
                                 /\ now - budget[ip].start >= LoginWindowSeconds]
       /\ UNCHANGED <<users, tokens, todos, nextTodoId, jwts, now, issued, presented,
                      sessions, loggedOut, drawer, client>>

\* the login handler runs for a request the middleware passed on
LoginAdmitted(req) ==
    /\ req \in inflight
    /\ LoginRoute(req.email, req.password)
    /\ inflight' = inflight \ {req}
    /\ UNCHANGED <<limiter, budget, sessions, loggedOut, drawer, client>>

NextLimit ==
    \/ \E ip \in Ips, p \in LoginPasswords : RateLimit(ip, AdminEmail, p)
    \/ \E req \in inflight : LoginAdmitted(req)
    \/ \E c \in jwts : Discard(c)
    \/ Tick

SpecLimit == Init /\ [][NextLimit]_vars

(***************************************************************************)
(* The client's own expiry test (isTokenExpired in lib/api.ts) on the       *)
(* payload decodeJwt returns; a missing payload or a falsy exp counts as    *)
(* not expired.                                                             *)
(***************************************************************************)
\* slip: a token is still good in the second its exp names
isTokenExpired_StrictlyLess(payload, nowSec) ==
    IF payload = NoCred \/ payload.exp = 0 THEN FALSE ELSE payload.exp < nowSec
isTokenExpired(payload, nowSec) ==
    IF payload = NoCred \/ payload.exp = 0 THEN FALSE ELSE payload.exp <= nowSec

\* registration, logins and GET /todos while the wall clock advances
NextClock ==
    \/ \E e \in FewEmails, p \in Passwords, s \in FewSalts : Register(e, p, s)
    \/ \E t \in TokenInputs : VerifyEmail(t)
    \/ \E e \in FewLoginEmails, p \in LoginPasswords : Login(e, p)
    \/ \E c \in Creds : ListMyTodos(c)
    \/ \E c \in jwts : Discard(c)
    \/ Tick

SpecClock == Init /\ [][NextClock]_vars

(***************************************************************************)
(* Server-side sessions (SESSION_TABLE set): a successful login also        *)
(* writes a session record and sets the HttpOnly session_id cookie; the     *)
(* middleware takes the cookie first and the bearer header otherwise.       *)
(***************************************************************************)
SessionIds == 1..MaxSessions
ValidateSession(sid) ==
    IF \E r \in sessions : r.session_id = sid /\ r.expires_at_epoch > now
    THEN LET r == CHOOSE r \in sessions : r.session_id = sid /\ r.expires_at_epoch > now
         IN IF users[r.user_id].is_active THEN r.user_id ELSE NoUser
    ELSE NoUser
\* slip: the bearer header is looked at first
ResolveIdentity_BearerFirst(sid, cred) ==
    IF cred # NoCred THEN Authenticate(cred) ELSE ValidateSession(sid)
ResolveIdentity(sid, cred) ==
    IF sid # NoSession THEN ValidateSession(sid) ELSE Authenticate(cred)

\* ids not handed out to a session that exists or was left by a logout
FreshSessionIds == SessionIds \ ({ r.session_id : r \in sessions } \cup loggedOut)

\* POST /auth/login with sessions enabled
SessionLogin(email, password) ==
    /\ LoginRoute(email, password)
    /\ IF LoginStatus(email, password) = 200
       THEN \E sid \in FreshSessionIds :
              /\ \A other \in FreshSessionIds : sid <= other
              /\ sessions' = sessions \cup
                   { [session_id |-> sid, user_id |-> FindByEmail(email),
                      expires_at_epoch |-> now + SESSION_TTL_SECONDS] }
       ELSE sessions' = sessions
    /\ UNCHANGED <<limiter, budget, inflight, loggedOut, drawer, client>>

\* GET /todos carrying the cookie sid (NoSession: none) and the bearer cred
CookieListTodos(sid, cred) ==
    /\ UNCHANGED <<users, tokens, todos, nextTodoId, jwts, now, issued, presented>>
    /\ UNCHANGED extras
    /\ LET id == ResolveIdentity(sid, cred)
       IN resp' = [op |-> "cookie_list_todos", status |-> IF id = NoUser THEN 401 ELSE 200,
                   sid |-> sid, cred |-> cred, caller |-> id,
                   body |-> IF id = NoUser THEN {} ELSE OwnedTodos(id)]

\* POST /auth/logout: the server removes the session record
ServerLogout(sid) ==
    /\ sessions' = { r \in sessions : r.session_id # sid }
    /\ resp' = [op |-> "logout", status |-> 200, sid |-> sid]
    /\ UNCHANGED <<users, tokens, todos, nextTodoId, jwts, now, issued, presented,
                   limiter, budget, inflight, loggedOut, drawer, client>>

\* Logout in the application (handleLogout -> logout -> clearSession): the
\* token and the e-mail leave localStorage, no request is sent, and the
\* HttpOnly cookie stays in the browser.
AppLogout(sid, cred) ==
    /\ cred \in jwts
    /\ \E r \in sessions : r.session_id = sid /\ r.user_id = FindByEmail(cred.sub)
    /\ jwts' = jwts \ {cred}
    /\ loggedOut' = loggedOut \cup {sid}
    /\ resp' = [op |-> "app_logout", status |-> 0, sid |-> sid]
    /\ UNCHANGED <<users, tokens, todos, nextTodoId, now, issued, presented,
                   limiter, budget, inflight, sessions, drawer, client>>

NextSession ==
    \/ \E e \in FewLoginEmails : Register(e, AdminPassword, 1)
    \/ VerifyEmail(IssueToken(2))
    \/ \E e \in FewLoginEmails : SessionLogin(e, AdminPassword)
    \/ \E sid \in SessionIds \cup {NoSession}, c \in Creds : CookieListTodos(sid, c)
    \/ \E sid \in SessionIds : ServerLogout(sid)
    \/ \E sid \in SessionIds, c \in jwts : AppLogout(sid, c)

SpecSession == Init /\ [][NextSession]_vars

(***************************************************************************)
(* Admin Users screen (AdminUsers in screens/Register.tsx): the drawer      *)
(* keeps the user as it was loaded; saving sends the flags whose switch     *)
(* differs from that copy, and adminUpdateUser puts only those in the       *)
(* query string.                                                            *)
(***************************************************************************)
FlagsOf(u) == [is_admin |-> u.is_admin, email_verified |-> u.email_verified,
               is_active |-> u.is_active]
\* GET /admin/users on mount, then openEditDrawer(user)
OpenEditDrawer(ed, cred, target) ==
    /\ AdminGate(cred) = 200
    /\ target \in UserIds
    /\ drawer' = [drawer EXCEPT ![ed] =
                    [selectedUser |-> [id |-> target] @@ FlagsOf(users[target]),
                     formData |-> FlagsOf(users[target])]]
    /\ resp' = [op |-> "admin_list_users", status |-> 200, cred |-> cred, target |-> 0,
                body |-> { users[i] : i \in UserIds }]
    /\ UNCHANGED <<users, tokens, todos, nextTodoId, jwts, now, issued, presented,
                   limiter, budget, inflight, sessions, loggedOut, client>>

\* slip: every switch of the form is sent, changed or not
QueryParam_Always(changed, value) == IF value THEN "true" ELSE "false"
QueryParam(changed, value) ==
    IF changed THEN (IF value THEN "true" ELSE "false") ELSE "absent"

\* changes.deactivate for the wanted is_active
\* slip: the switch is sent as it is
DeactivateOf_Same(is_active) == is_active
DeactivateOf(is_active) == ~is_active
\* the query string built by handleUpdateUser and adminUpdateUser
PatchQuery(sel, form) ==
    [make_admin |-> QueryParam(form.is_admin # sel.is_admin, form.is_admin),
     verify_email |-> QueryParam(form.email_verified # sel.email_verified,
                                 form.email_verified),
     deactivate |-> QueryParam(form.is_active # sel.is_active,
                               DeactivateOf(form.is_active))]

\* the switches are set to form and Save is pressed (handleUpdateUser)
HandleUpdateUser(ed, cred, form) ==
    LET sel == drawer[ed].selectedUser
        q == PatchQuery(sel, form)
    IN /\ sel.id # 0
       /\ PatchUserRoute(cred, sel.id, q.make_admin, q.verify_email, q.deactivate)
       /\ wire' = [op |-> "PATCH /admin/users/{id}", editor |-> ed,
                   authorization |-> Item(Jwt(cred)), target |-> sel.id,
                   make_admin |-> q.make_admin, verify_email |-> q.verify_email,
                   deactivate |-> q.deactivate]
       /\ drawer' = [drawer EXCEPT ![ed] =
                       IF AdminGate(cred) = 200 /\ sel.id \in UserIds
                       THEN [selectedUser |-> NoSelection, formData |-> form]
                       ELSE [@ EXCEPT !.formData = form]]
       /\ UNCHANGED <<limiter, budget, inflight, sessions, loggedOut>>
       /\ UNCHANGED <<storage, url, app, loginCalls, verifyScreen, verifyCalls, myTodos,
                      todoCalls>>

\* switch settings that differ from the drawer's copy in at most one flag
OneChange(sel) ==
    { f \in Flags : Cardinality({ k \in {"is_admin", "email_verified", "is_active"} :
                                    f[k] # sel[k] }) <= 1 }

\* two browsers of the seeded admin edit the other accounts
NextEdit ==
    \/ \E e \in FewLoginEmails : Register(e, AdminPassword, 1)
    \/ \E p \in LoginPasswords : Login(AdminEmail, p)
    \/ \E ed \in Editors, c \in jwts, id \in 2..MaxUsers : OpenEditDrawer(ed, c, id)
    \/ \E ed \in Editors, c \in jwts :
          \E f \in OneChange(drawer[ed].selectedUser) : HandleUpdateUser(ed, c, f)

SpecEdit == Init /\ [][NextEdit]_vars

\* one browser of the seeded admin edits the account registered first, with
\* every setting of the three switches
NextSave ==
    \/ Register(<<97, 64, 120>>, AdminPassword, 1)
    \/ Login(AdminEmail, AdminPassword)
    \/ \E c \in jwts : OpenEditDrawer(1, c, 2)
    \/ \E c \in jwts, f \in Flags : HandleUpdateUser(1, c, f)

SpecSave == Init /\ [][NextSave]_vars

(***************************************************************************)
(* API client (lib/api.ts): token helpers over localStorage.               *)
(***************************************************************************)
getToken(store) == store.token
getCurrentEmail(store) == store.email
\* !!t of a getItem result: null and the empty string are falsy
Truthy(item) == item.present /\ item.value.segments > 0
\* split("."), atob and JSON.parse of the second part; null when one throws
decodeJwt(token) == IF token.segments < 2 THEN NoCred ELSE token.payload
isLoggedIn(store, nowSec) ==
    LET t == getToken(store)
    IN Truthy(t) /\ ~isTokenExpired(decodeJwt(t.value), nowSec)
\* the Authorization header of a request: Bearer <token>, or none (NullToken)
authHeaders(store) == IF Truthy(getToken(store)) THEN getToken(store) ELSE NullToken
\* slip: only the token is removed
clearSession_KeepsEmail(store) == [store EXCEPT !.token = NullToken]
clearSession(store) == [store EXCEPT !.token = NullToken, !.email = NullEmail]
\* res.ok of a response
\* slip: the status is not looked at
Ok_Always(r) == TRUE
Ok(r) == r.status >= 200 /\ r.status <= 299
\* login() gets past handleJsonResponse and data.access_token: the response
\* is ok and has a JSON body (data is null otherwise and reading it throws)
LoginReturns(r) == Ok(r) /\ r.json
\* what login() leaves in localStorage for a response
LoginStores(store, email, r) ==
    IF LoginReturns(r)
    THEN [token |-> Item(r.access_token), email |-> Item(email)]
    ELSE store
\* responses of POST /auth/login as the client sees them: 200 with a token
\* for the account, 200 with a body without access_token ("undefined" is
\* stored), 200 without a JSON body, a failure status, or no response (0)
LoginResponses(email) ==
    { [status |-> 200, json |-> TRUE,
       access_token |-> Jwt([sub |-> email, adm |-> email = AdminEmail,
                             exp |-> now + ACCESS_TOKEN_EXPIRE_MINUTES * 60])] }
    \cup { [status |-> 200, json |-> j, access_token |-> Garbage] : j \in BOOLEAN }
    \cup { [status |-> st, json |-> TRUE, access_token |-> Garbage] :
             st \in { 0, 400, 403, 429 } }

(***************************************************************************)
(* App (App.tsx): what is rendered for a state, and the effects of the     *)
(* first render.                                                           *)
(***************************************************************************)
\* slip: the admin pages are rendered for every signed-in user
Screen_NoRoleCheck(a) ==
    IF a.currentUser = NoCurrentUser
    THEN CASE a.currentPage = "register" -> "Register"
           [] a.currentPage = "verify-email" -> "VerifyEmail"
           [] a.currentPage = "simple" -> "SimpleUI"
           [] OTHER -> "Login"
    ELSE CASE a.currentPage = "profile" -> "Profile"
           [] a.currentPage = "users" -> "AdminUsers"
           [] a.currentPage = "settings" -> "Settings"
           [] a.currentPage = "all-todos" -> "AdminTodos"
           [] OTHER -> "MyTodos"
Screen(a) ==
    IF a.currentUser = NoCurrentUser
    THEN CASE a.currentPage = "register" -> "Register"
           [] a.currentPage = "verify-email" -> "VerifyEmail"
           [] a.currentPage = "simple" -> "SimpleUI"
           [] OTHER -> "Login"
    ELSE CASE a.currentPage = "profile" -> "Profile"
           [] a.currentPage = "users" ->
                IF a.currentUser.role = "admin" THEN "AdminUsers" ELSE "AccessDenied"
           [] a.currentPage = "settings" -> "Settings"
           [] a.currentPage = "all-todos" ->
                IF a.currentUser.role = "admin" THEN "AdminTodos" ELSE "AccessDenied"
           [] OTHER -> "MyTodos"

\* a verifyEmail() call that waits for its response
FreeVerifyId == CHOOSE i \in 1..MaxCalls : \A c \in verifyCalls : c.id # i
\* the render that follows a change of App's state: a VerifyEmail that
\* appears starts with fresh state and its token effect submits ?token=;
\* one that disappears leaves its calls behind, which then update nothing
VerifyEffects(from, to) ==
    IF Screen(to) = "VerifyEmail" /\ Screen(from) # "VerifyEmail"
    THEN IF url.token # ""
         THEN /\ verifyScreen' = [mounted |-> TRUE, status |-> "idle", loading |-> TRUE,
                                  tokenInput |-> url.token]
              /\ Cardinality(verifyCalls) < MaxCalls
              /\ verifyCalls' = verifyCalls \cup
                                  { [id |-> FreeVerifyId, token |-> url.token,
                                     origin |-> "url", live |-> TRUE] }
         ELSE /\ verifyScreen' = [mounted |-> TRUE] @@ VerifyIdle
              /\ verifyCalls' = verifyCalls
    ELSE IF Screen(to) # "VerifyEmail" /\ Screen(from) = "VerifyEmail"
    THEN /\ verifyScreen' = NoVerifyScreen
         /\ verifyCalls' = { [c EXCEPT !.live = FALSE] : c \in verifyCalls }
    ELSE UNCHANGED <<verifyScreen, verifyCalls>>
\* the list a screen fetches when it appears
MountFetch(screen) ==
    CASE screen = "MyTodos" -> "GET /todos"
      [] screen = "AdminUsers" -> "GET /admin/users"
      [] screen = "AdminTodos" -> "GET /admin/todos"
      [] OTHER -> ""
\* calls are the login() calls still waiting and store is localStorage after
\* the handler: a screen that disappears no longer counts its call as
\* loading, a screen with a list builds the request for it
ScreenEffects(from, to, calls, store) ==
    /\ VerifyEffects(from, to)
    /\ loginCalls' = IF Screen(to) = Screen(from) THEN calls
                     ELSE { [c EXCEPT !.live = c.live /\ c.origin # Screen(from)] : c \in calls }
    /\ wire' = IF Screen(to) # Screen(from) /\ MountFetch(Screen(to)) # ""
               THEN [NoRequest EXCEPT !.op = MountFetch(Screen(to)),
                                      !.authorization = authHeaders(store)]
               ELSE wire

\* effect of lines 160-170: ?token= or ?page=verify-email, ?page=simple
UrlEffect(a) ==
    IF url.page = "verify-email" \/ url.hasToken THEN [a EXCEPT !.currentPage = "verify-email"]
    ELSE IF url.page = "simple" THEN [a EXCEPT !.currentPage = "simple"]
    ELSE a
\* effect of lines 172-182: restore the session from the stored token
RestoreEffect(a) ==
    IF isLoggedIn(storage, now)
    THEN [a EXCEPT !.currentUser =
                     [email |-> IF getCurrentEmail(storage).present
                                   /\ getCurrentEmail(storage).value # NoEmail
                                THEN getCurrentEmail(storage).value ELSE UserLiteral,
                      role |-> IF decodeJwt(getToken(storage).value).adm
                               THEN "admin" ELSE "user",
                      isVerified |-> TRUE],
                   !.currentPage = "my-todos"]
    ELSE a

\* the page is opened: first render, then the effects in source order
AppMount ==
    /\ ~app.mounted
    /\ LET a == [RestoreEffect(UrlEffect(app)) EXCEPT !.mounted = TRUE]
       IN /\ app' = a
          /\ ScreenEffects(app, a, loginCalls, storage)
    /\ UNCHANGED <<server, middleware>>
    /\ UNCHANGED <<storage, url, myTodos, todoCalls>>

\* a page load: any content of localStorage, any of the addresses
InitLoad ==
    /\ ServerInit
    /\ storage \in [token : StoredTokens, email : StoredEmails]
    /\ url \in Urls
    /\ app = [InitialApp EXCEPT !.mounted = FALSE]
    /\ loginCalls = {}
    /\ verifyScreen = NoVerifyScreen
    /\ verifyCalls = {}
    /\ myTodos = LoadedEmpty
    /\ todoCalls = {}
    /\ wire = NoRequest

NextLoad ==
    \/ AppMount
    \/ Tick

SpecLoad == InitLoad /\ [][NextLoad]_vars

(***************************************************************************)
(* App's handlers and the Login and SimpleUI screens.                      *)
(***************************************************************************)
handleLogin(a, email, role) ==
    [a EXCEPT !.currentUser = [email |-> email, role |-> role, isVerified |-> TRUE],
              !.pendingVerificationEmail = NoEmail,
              !.currentPage = "my-todos"]
\* slip: the page is left as it is
handleLogout_StaysOnPage(a) == [a EXCEPT !.currentUser = NoCurrentUser]
handleLogout(a) == [a EXCEPT !.currentUser = NoCurrentUser, !.currentPage = "login"]
handleNavigate(a, page) == [a EXCEPT !.currentPage = page]
handleRequireVerification(a, email) ==
    [a EXCEPT !.pendingVerificationEmail = email, !.currentPage = "verify-email"]
\* the catch of Login.handleSubmit
\* slip: every rejection of the credentials leads to the verification screen
RequiresVerification_AnyRejection(status) == status >= 400 /\ status <= 499
RequiresVerification(status) == status = 403

\* the screens that are given onNavigate
Navigable == { "Login", "Register", "VerifyEmail", "MyTodos", "Profile", "Settings",
               "AdminUsers", "AdminTodos", "AccessDenied" }
\* handleNavigate takes any page name; the screens' buttons pass some of them
Navigate(page) ==
    /\ app.mounted
    /\ Screen(app) \in Navigable
    /\ app' = handleNavigate(app, page)
    /\ ScreenEffects(app, app', loginCalls, storage)
    /\ UNCHANGED <<server, middleware>>
    /\ UNCHANGED <<storage, url, myTodos, todoCalls>>

\* a login() call that waits for its response: id tells two calls apart,
\* live says that the screen that made it still shows it as loading
FreeCallId == CHOOSE i \in 1..MaxCalls : \A c \in loginCalls : c.id # i
\* Login.handleSubmit up to the fetch of login(): nothing is sent while a
\* field is empty; the form is disabled while its call is loading
LoginSubmit(email, password) ==
    /\ app.mounted
    /\ Screen(app) = "Login"
    /\ ~\E c \in loginCalls : c.origin = "Login" /\ c.live
    /\ IF email = NoEmail \/ password = ""
       THEN loginCalls' = loginCalls
       ELSE /\ Cardinality(loginCalls) < MaxCalls
            /\ loginCalls' = loginCalls \cup
                                { [id |-> FreeCallId, email |-> email, origin |-> "Login",
                                   live |-> TRUE] }
    /\ UNCHANGED <<server, middleware>>
    /\ UNCHANGED <<storage, url, app, verifyScreen, verifyCalls, myTodos, todoCalls, wire>>

\* SimpleUI.handleLogin up to the fetch of login()
SimpleLogin(email) ==
    /\ app.mounted
    /\ Screen(app) = "SimpleUI"
    /\ ~\E c \in loginCalls : c.origin = "SimpleUI" /\ c.live
    /\ Cardinality(loginCalls) < MaxCalls
    /\ loginCalls' = loginCalls \cup
                        { [id |-> FreeCallId, email |-> email, origin |-> "SimpleUI",
                           live |-> TRUE] }
    /\ UNCHANGED <<server, middleware>>
    /\ UNCHANGED <<storage, url, app, verifyScreen, verifyCalls, myTodos, todoCalls, wire>>

\* the response of a login() call arrives: the rest of login(), then the
\* rest of the handler that awaited it
LoginResponse(call, r) ==
    /\ call \in loginCalls
    /\ storage' = LoginStores(storage, call.email, r)
    /\ LET a == IF call.origin # "Login" THEN app
                ELSE IF LoginReturns(r)
                THEN handleLogin(app, call.email,
                                 IF decodeJwt(r.access_token).adm THEN "admin" ELSE "user")
                ELSE IF RequiresVerification(r.status)
                THEN handleRequireVerification(app, call.email)
                ELSE app
       IN /\ app' = a
          /\ ScreenEffects(app, a, loginCalls \ {call}, storage')
    /\ resp' = [op |-> "login_response", status |-> r.status, json |-> r.json,
                email |-> call.email, origin |-> call.origin]
    /\ UNCHANGED <<users, tokens, todos, nextTodoId, jwts, now, issued, presented>>
    /\ UNCHANGED middleware
    /\ UNCHANGED <<url, myTodos, todoCalls>>

\* Logout in the Layout (handleLogout -> logout -> clearSession)
Logout ==
    /\ app.mounted
    /\ app.currentUser # NoCurrentUser
    /\ storage' = clearSession(storage)
    /\ app' = handleLogout(app)
    /\ ScreenEffects(app, app', loginCalls, storage')
    /\ UNCHANGED <<server, middleware>>
    /\ UNCHANGED <<url, myTodos, todoCalls>>

\* SimpleUI.handleLogout
SimpleLogout ==
    /\ app.mounted
    /\ Screen(app) = "SimpleUI"
    /\ storage' = clearSession(storage)
    /\ UNCHANGED <<server, middleware>>
    /\ UNCHANGED <<url, app, loginCalls, verifyScreen, verifyCalls, myTodos, todoCalls, wire>>

\* SimpleUI's list and create buttons: a request with authHeaders()
SimpleRequest ==
    /\ app.mounted
    /\ Screen(app) = "SimpleUI"
    /\ wire' = [NoRequest EXCEPT !.op = "GET /todos", !.authorization = authHeaders(storage)]
    /\ UNCHANGED <<server, middleware>>
    /\ UNCHANGED <<storage, url, app, loginCalls, verifyScreen, verifyCalls, myTodos, todoCalls>>

FormEmails == { NoEmail, <<97, 64, 120>>, AdminEmail }
FormPasswords == { "", AdminPassword }

NextApp ==
    \/ \E page \in Pages : Navigate(page)
    \/ \E e \in FormEmails, pw \in FormPasswords : LoginSubmit(e, pw)
    \/ \E call \in loginCalls : \E r \in LoginResponses(call.email) : LoginResponse(call, r)
    \/ Logout
    \/ SimpleRequest

SpecApp == Init /\ [][NextApp]_vars

\* the API client used from the Login screen, the Layout and SimpleUI
\* (opened with ?page=simple), starting from an empty localStorage
InitApi ==
    /\ ServerInit
    /\ storage = EmptyStorage
    /\ url \in Urls
    /\ app = [InitialApp EXCEPT !.mounted = FALSE]
    /\ loginCalls = {}
    /\ verifyScreen = NoVerifyScreen
    /\ verifyCalls = {}
    /\ myTodos = LoadedEmpty
    /\ todoCalls = {}
    /\ wire = NoRequest

NextApi ==
    \/ AppMount
    \/ \E e \in FormEmails, pw \in FormPasswords : LoginSubmit(e, pw)
    \/ \E e \in FormEmails : SimpleLogin(e)
    \/ \E call \in loginCalls : \E r \in LoginResponses(call.email) : LoginResponse(call, r)
    \/ Logout
    \/ SimpleLogout
    \/ SimpleRequest

SpecApi == InitApi /\ [][NextApi]_vars

(***************************************************************************)
(* VerifyEmail screen (screens/Register.tsx).                              *)
(***************************************************************************)
\* disabled= of the token field and of the Verify button
\* slip: the controls are only disabled while a call is loading
FormDisabled_WhileLoadingOnly(v) == v.loading
FormDisabled(v) == v.loading \/ v.status = "success"
\* String.prototype.trim on the texts typed here
Trim(t) == CASE t = " " -> "" [] t = " a1" -> "a1" [] OTHER -> t
TypedTokens == { "", " ", " a1", "zz" }

\* onChange of the token field
TypeToken(t) ==
    /\ verifyScreen.mounted
    /\ ~FormDisabled(verifyScreen)
    /\ verifyScreen' = [verifyScreen EXCEPT !.tokenInput = t]
    /\ UNCHANGED <<server, middleware>>
    /\ UNCHANGED <<storage, url, app, loginCalls, verifyCalls, myTodos, todoCalls, wire>>

\* VerifyEmail.handleSubmit, and runVerification up to the fetch
VerifySubmit ==
    /\ verifyScreen.mounted
    /\ ~FormDisabled(verifyScreen)
    /\ IF Trim(verifyScreen.tokenInput) = ""
       THEN /\ verifyScreen' = [verifyScreen EXCEPT !.status = "error"]
            /\ verifyCalls' = verifyCalls
       ELSE /\ Cardinality(verifyCalls) < MaxCalls
            /\ verifyScreen' = [verifyScreen EXCEPT !.loading = TRUE, !.status = "idle"]
            /\ verifyCalls' = verifyCalls \cup
                                { [id |-> FreeVerifyId, token |-> Trim(verifyScreen.tokenInput),
                                   origin |-> "form", live |-> TRUE] }
    /\ UNCHANGED <<server, middleware>>
    /\ UNCHANGED <<storage, url, app, loginCalls, myTodos, todoCalls, wire>>

\* the response of GET /auth/verify-email arrives: the rest of
\* runVerification, and the effect that clears the pending e-mail on success
VerifyResponse(call, ok) ==
    /\ call \in verifyCalls
    /\ verifyCalls' = verifyCalls \ {call}
    /\ IF call.live
       THEN /\ verifyScreen' = [verifyScreen EXCEPT
                                  !.status = IF ok THEN "success" ELSE "error",
                                  !.loading = FALSE]
            /\ app' = IF ok THEN [app EXCEPT !.pendingVerificationEmail = NoEmail] ELSE app
       ELSE UNCHANGED <<verifyScreen, app>>
    /\ UNCHANGED <<server, middleware>>
    /\ UNCHANGED <<storage, url, loginCalls, myTodos, todoCalls, wire>>

\* the pages the buttons of Login, Register and VerifyEmail pass to onNavigate
UnauthPages == { "login", "register", "verify-email" }

NextVerify ==
    \/ AppMount
    \/ \E t \in TypedTokens : TypeToken(t)
    \/ VerifySubmit
    \/ \E call \in verifyCalls, ok \in BOOLEAN : VerifyResponse(call, ok)
    \/ \E page \in UnauthPages : Navigate(page)

SpecVerify == InitApi /\ [][NextVerify]_vars

(***************************************************************************)
(* MyTodos screen (screens/MyTodos.tsx).  Every handler works on todos as  *)
(* it was in the render in which the handler was called (snapshot), also   *)
(* after its await.                                                        *)
(***************************************************************************)
SetDone(list, id, done) ==
    [i \in 1..Len(list) |-> IF list[i].id = id THEN [list[i] EXCEPT !.done = done]
                             ELSE list[i]]
Replace(list, todo) ==
    [i \in 1..Len(list) |-> IF list[i].id = todo.id THEN todo ELSE list[i]]
Without(list, id) == SelectSeq(list, LAMBDA t : t.id # id)
FreeTodoCallId == CHOOSE i \in 1..MaxCalls : \A c \in todoCalls : c.id # i
TodoCall(op, todo, nextDone) ==
    [id |-> FreeTodoCallId, op |-> op, todo |-> todo, nextDone |-> nextDone,
     snapshot |-> myTodos.todos]

\* handleToggleDone up to the await: the optimistic update
ToggleClick(i) ==
    /\ i \in 1..Len(myTodos.todos)
    /\ Cardinality(todoCalls) < MaxCalls
    /\ LET todo == myTodos.todos[i]
       IN /\ myTodos' = [myTodos EXCEPT !.todos = SetDone(@, todo.id, ~todo.done)]
          /\ todoCalls' = todoCalls \cup { TodoCall("toggle", todo.id, ~todo.done) }
    /\ UNCHANGED <<server, middleware>>
    /\ UNCHANGED <<storage, url, app, loginCalls, verifyScreen, verifyCalls, wire>>

\* handleCreateTodo up to the await (the button is disabled while loading)
CreateClick ==
    /\ ~myTodos.loading
    /\ Cardinality(todoCalls) < MaxCalls
    /\ myTodos.created < MaxShown
    /\ myTodos' = [myTodos EXCEPT !.loading = TRUE]
    /\ todoCalls' = todoCalls \cup { TodoCall("create", 0, FALSE) }
    /\ UNCHANGED <<server, middleware>>
    /\ UNCHANGED <<storage, url, app, loginCalls, verifyScreen, verifyCalls, wire>>

\* the edit dialog is opened for a todo and Update is pressed:
\* handleUpdateTodo up to the await (the button is disabled while loading)
EditClick(i) ==
    /\ i \in 1..Len(myTodos.todos)
    /\ ~myTodos.loading
    /\ Cardinality(todoCalls) < MaxCalls
    /\ myTodos' = [myTodos EXCEPT !.loading = TRUE]
    /\ todoCalls' = todoCalls \cup { TodoCall("edit", myTodos.todos[i].id, FALSE) }
    /\ UNCHANGED <<server, middleware>>
    /\ UNCHANGED <<storage, url, app, loginCalls, verifyScreen, verifyCalls, wire>>

\* the delete dialog is opened for a todo and Delete is pressed:
\* handleDeleteTodo up to the await
DeleteClick(i) ==
    /\ i \in 1..Len(myTodos.todos)
    /\ Cardinality(todoCalls) < MaxCalls
    /\ myTodos' = [myTodos EXCEPT !.loading = TRUE]
    /\ todoCalls' = todoCalls \cup { TodoCall("delete", myTodos.todos[i].id, FALSE) }
    /\ UNCHANGED <<server, middleware>>
    /\ UNCHANGED <<storage, url, app, loginCalls, verifyScreen, verifyCalls, wire>>

\* the response of a call arrives: the rest of its handler.  ok says whether
\* the request succeeded, done is the done flag of the todo the server sends
TodoResponse(call, ok, done) ==
    /\ call \in todoCalls
    /\ todoCalls' = todoCalls \ {call}
    /\ myTodos' =
         CASE call.op = "toggle" ->
                IF ok THEN myTodos
                ELSE [myTodos EXCEPT
                        !.todos = SetDone(call.snapshot, call.todo, ~call.nextDone)]
           [] call.op = "create" ->
                IF ok THEN [todos |-> << [id |-> myTodos.created + 1, done |-> FALSE] >>
                                        \o call.snapshot,
                            loading |-> FALSE, created |-> myTodos.created + 1]
                ELSE [myTodos EXCEPT !.loading = FALSE]
           [] call.op = "edit" ->
                IF ok THEN [myTodos EXCEPT
                              !.todos = Replace(call.snapshot, [id |-> call.todo, done |-> done]),
                              !.loading = FALSE]
                ELSE [myTodos EXCEPT !.loading = FALSE]
           [] OTHER ->
                IF ok THEN [myTodos EXCEPT !.todos = Without(call.snapshot, call.todo),
                                           !.loading = FALSE]
                ELSE [myTodos EXCEPT !.loading = FALSE]
    /\ resp' = [op |-> "todo_response", kind |-> call.op, todo |-> call.todo, ok |-> ok]
    /\ UNCHANGED <<users, tokens, todos, nextTodoId, jwts, now, issued, presented>>
    /\ UNCHANGED middleware
    /\ UNCHANGED <<storage, url, app, loginCalls, verifyScreen, verifyCalls, wire>>

NextTodos ==
    \/ \E i \in 1..MaxShown : ToggleClick(i)
    \/ CreateClick
    \/ \E i \in 1..MaxShown : EditClick(i)
    \/ \E i \in 1..MaxShown : DeleteClick(i)
    \/ \E call \in todoCalls, ok \in BOOLEAN, done \in BOOLEAN : TodoResponse(call, ok, done)

SpecTodos == Init /\ [][NextTodos]_vars

(***************************************************************************)
(* Properties                                                              *)
(***************************************************************************)
ProtectedOps ==
    { "list_todos", "create_todo", "update_todo", "delete_todo",
      "admin_list_users", "admin_update_user", "admin_list_todos", "admin_delete_todo" }
AdminOps == { "admin_list_users", "admin_update_user", "admin_list_todos", "admin_delete_todo" }
OwnerOps == { "list_todos", "update_todo", "delete_todo" }

\* C1: a verification token that has been consumed successfully is never
\* consumed successfully again: every later attempt on it answers 404.
C1_TokenSingleUse ==
    [][(resp'.op = "verify" /\ \E p \in presented : p[1] = resp'.token)
         => resp'.status = 404]_vars

\* C2: no two stored verification tokens are equal, and a successful
\* consumption verifies only the user the presented token was issued to.
C2_TokensUniqueAndBound ==
    /\ \A r1 \in tokens : \A r2 \in tokens : r1.token = r2.token => r1 = r2
    /\ (resp.op = "verify" /\ resp.status = 200)
         => \A p \in issued : p[1] = resp.token => p[2] = resp.user_id

\* C3: a well-formed registration of an address that equals, ignoring case,
\* the address of another user is answered 409 and creates no user; no two
\* users have addresses that are equal ignoring case.
C3_DuplicateEmailConflict ==
    /\ \A i \in UserIds : \A j \in UserIds :
         Lower(users[i].email) = Lower(users[j].email) => i = j
    /\ (resp.op = "register" /\ resp.status # 400)
         => \A i \in UserIds :
              (i # resp.user_id /\ Lower(users[i].email) = Lower(resp.email))
                => (resp.status = 409 /\ resp.user_id = NoUser)

\* C4: a login for a registered account whose email_verified is false is
\* answered 403, whatever the password, and returns no access token.
C4_UnverifiedLoginForbidden ==
    resp.op = "login" =>
        LET id == FindByEmail(resp.email)
        IN (id # NoUser /\ ~users[id].email_verified)
             => (resp.status = 403 /\ resp.access_token = NoCred)
C4_Witness ==
    /\ resp.op = "login" /\ resp.status = 403
    /\ FindByEmail(resp.email) # NoUser
    /\ ~users[FindByEmail(resp.email)].email_verified
    /\ ~VerifyPassword(resp.password, users[FindByEmail(resp.email)].password_hash)

\* C5: an access token returned by a login is for a user that is verified
\* and active at that moment, and names that user.
C5_LoginOnlyVerifiedActive ==
    (resp.op = "login" /\ resp.access_token # NoCred) =>
        LET id == FindByEmail(resp.email)
        IN /\ id # NoUser
           /\ resp.status = 200
           /\ users[id].email_verified
           /\ users[id].is_active
           /\ resp.access_token.sub = users[id].email
C5_Witness ==
    /\ resp.op = "login" /\ resp.status = 200
    /\ resp.access_token \in jwts
    /\ ~users[FindByEmail(resp.email)].is_admin
    /\ \E i \in UserIds : ~users[i].is_active

\* C6: once a user has registered and the token issued to them has been
\* consumed successfully, a login with the registered address and password
\* succeeds and the access token names the registered address.
C6_RegisterVerifyLogin ==
    resp.op = "login" =>
        \A i \in UserIds :
            ( /\ users[i].email = resp.email
              /\ VerifyPassword(resp.password, users[i].password_hash)
              /\ \E p \in presented : p[2] = i )
            => (resp.status = 200 /\ resp.access_token.sub = users[i].email)

\* C7: a protected request that presents a credential of a deactivated user
\* is answered 401, also when the credential was issued before the
\* deactivation and has not expired.
C7_DeactivatedRejected ==
    [][(/\ resp'.op \in ProtectedOps
        /\ resp'.cred \in jwts
        /\ FindByEmail(resp'.cred.sub) # NoUser
        /\ ~users[FindByEmail(resp'.cred.sub)].is_active)
         => resp'.status = 401]_vars
C7_Witness ==
    /\ resp.op \in ProtectedOps /\ resp.status = 401
    /\ resp.cred \in jwts /\ ~JwtExpired(resp.cred)
    /\ FindByEmail(resp.cred.sub) # NoUser
    /\ ~users[FindByEmail(resp.cred.sub)].is_active

\* C8: a list, update or delete on /todos by a non-admin caller returns no
\* todo of another owner and leaves every todo of another owner as it was.
C8_OwnerIsolation ==
    [][(resp'.op \in OwnerOps /\ Authenticate(resp'.cred) # NoUser
        /\ ~users[Authenticate(resp'.cred)].is_admin)
         => /\ \A t \in todos : t.owner_id # Authenticate(resp'.cred) => t \in todos'
            /\ \A t \in resp'.body : t.owner_id = Authenticate(resp'.cred)]_vars
C8_Witness ==
    /\ resp.op \in { "update_todo", "delete_todo" } /\ resp.status = 403
    /\ Authenticate(resp.cred) # NoUser
    /\ ~users[Authenticate(resp.cred)].is_admin
    /\ \E t \in todos : t.id = resp.todo_id /\ t.owner_id # Authenticate(resp.cred)

\* C9: is_admin goes from false to true only in a PATCH /admin/users/{id}
\* whose caller is an admin; a new user is created with is_admin false.
C9_AdminFlagOnlyByAdmin ==
    [][/\ \A i \in UserIds :
            (~users[i].is_admin /\ users'[i].is_admin)
              => /\ resp'.op = "admin_update_user"
                 /\ Authenticate(resp'.cred) # NoUser
                 /\ users[Authenticate(resp'.cred)].is_admin
       /\ \A i \in 1..Len(users') : i > Len(users) => ~users'[i].is_admin]_vars
C9_Witness ==
    /\ resp.op = "admin_update_user" /\ resp.status = 403
    /\ resp.target = Authenticate(resp.cred)
    /\ ~users[resp.target].is_admin
    /\ \E i \in UserIds : users[i].is_admin

\* C10: a request to an admin-only route with a valid credential of a user
\* whose is_admin is false is answered 403 and changes no user and no todo.
C10_AdminRoutesForbidden ==
    [][(resp'.op \in AdminOps /\ Authenticate(resp'.cred) # NoUser
        /\ ~users[Authenticate(resp'.cred)].is_admin)
         => (resp'.status = 403 /\ users' = users /\ todos' = todos)]_vars
C10_Witness ==
    /\ resp.op \in AdminOps /\ resp.status = 403
    /\ Authenticate(resp.cred) # NoUser
    /\ resp.cred.adm
    /\ todos # {}

\* C11: a login request is answered 429 exactly when its own identity has
\* used up its budget in the current window, whatever other identities
\* have sent.
C11_PerIdentityBudget ==
    [][resp'.op = "rate_limit"
         => ((resp'.status = 429) <=> (OwnAdmitted(resp'.ip) >= MaxLoginRequests))]_vars
C11_Witness ==
    /\ resp.op = "rate_limit" /\ resp.status = 0
    /\ \E other \in Ips \ {resp.ip} :
         /\ budget[other].rejected
         /\ now - budget[other].start < LoginWindowSeconds

\* C12: a login answered 429 is not passed on to the login handler, whether
\* or not its credentials are right: no credential is issued and nothing
\* but the limiter's own table may change.
C12_RejectedBeforeHandler ==
    [][(resp'.op = "rate_limit" /\ resp'.status = 429)
         => UNCHANGED <<users, tokens, todos, nextTodoId, jwts, issued, presented,
                        inflight, sessions>>]_vars
C12_Witness ==
    /\ resp.op = "rate_limit" /\ resp.status = 429
    /\ LoginStatus(resp.email, resp.password) = 200

\* C13: the first request of an identity after its window has elapsed is
\* admitted, also when the identity was answered 429 in that window.
C13_WindowReset ==
    [][(/\ resp'.op = "rate_limit"
        /\ budget[resp'.ip].start # -1
        /\ now - budget[resp'.ip].start >= LoginWindowSeconds)
         => resp'.status = 0]_vars
C13_Witness ==
    resp.op = "rate_limit" /\ resp.status = 0 /\ resp.recovered

C15_ExpiredAtExp ==
    /\ \A c \in jwts : isTokenExpired(c, now) = (c.exp <= now)
    /\ (resp.op = "list_todos" /\ resp.cred \in jwts)
         => ((resp.status = 401) <=> (resp.cred.exp <= now))
C15_Witness ==
    /\ resp.op = "list_todos" /\ resp.status = 401
    /\ resp.cred \in jwts /\ resp.cred.exp = now
    /\ isTokenExpired(resp.cred, now)

C17_LogoutInvalidatesSession ==
    (resp.op = "cookie_list_todos" /\ resp.sid \in loggedOut) => resp.status = 401

\* C18: email_verified of a user never goes from true back to false (so it
\* becomes true at most once).
C18_VerifiedOnce ==
    [][\A i \in UserIds : users[i].email_verified => users'[i].email_verified]_vars

\* C19: a successful save from the Admin Users screen writes exactly the
\* flags whose switch differs from the copy the drawer was opened with; every
\* other flag keeps the value it has in the store, also when another admin
\* changed it after the drawer was opened.
C19_IndependentFlagUpdates ==
    [][\A ed \in Editors :
         (drawer[ed].selectedUser.id # 0 /\ drawer'[ed].selectedUser.id = 0)
           => LET sel == drawer[ed].selectedUser
                  form == drawer'[ed].formData
                  old == users[sel.id]
                  new == users'[sel.id]
              IN /\ new.is_admin = IF form.is_admin # sel.is_admin
                                   THEN form.is_admin ELSE old.is_admin
                 /\ new.email_verified = IF form.email_verified # sel.email_verified
                                         THEN form.email_verified ELSE old.email_verified
                 /\ new.is_active = IF form.is_active # sel.is_active
                                    THEN form.is_active ELSE old.is_active]_vars
C19_Witness ==
    \E e1 \in Editors, e2 \in Editors :
        LET f1 == drawer[e1].formData
            f2 == drawer[e2].formData
            u == users[resp.target]
        IN /\ resp.op = "admin_update_user" /\ resp.status = 200
           /\ e1 # e2
           /\ drawer[e1].selectedUser.id = 0 /\ drawer[e2].selectedUser.id = 0
           /\ u.is_admin = f1.is_admin /\ u.is_admin # f2.is_admin
           /\ u.is_active = f2.is_active /\ u.is_active # f1.is_active
           /\ f1.email_verified = f2.email_verified

\* C20: a login for an address that is not registered and a login with a
\* wrong password for a registered, verified, active address get the same
\* status and the same message.
BadCredentials(email, password) ==
    LET id == FindByEmail(email)
    IN \/ id = NoUser
       \/ /\ id # NoUser /\ users[id].email_verified /\ users[id].is_active
          /\ ~VerifyPassword(password, users[id].password_hash)
C20_BadCredentialsIndistinguishable ==
    (resp.op = "login" /\ BadCredentials(resp.email, resp.password)) =>
        \A e \in LoginEmails, p \in LoginPasswords :
            BadCredentials(e, p) =>
                /\ LoginStatus(e, p) = resp.status
                /\ LoginDetail(e, p) = resp.detail
C20_Witness ==
    /\ resp.op = "login" /\ resp.status = 400
    /\ FindByEmail(resp.email) # NoUser
    /\ ~users[FindByEmail(resp.email)].is_admin
    /\ BadCredentials(resp.email, resp.password)
    /\ \E e \in LoginEmails : FindByEmail(e) = NoUser

\* C21: isLoggedIn() is true only if a token is stored and that token
\* carries an exp claim that is later than the current time in seconds.
C21_LoggedInOnlyFresh ==
    isLoggedIn(storage, now) =>
        /\ getToken(storage).present
        /\ decodeJwt(getToken(storage).value).exp # 0
        /\ decodeJwt(getToken(storage).value).exp > now

\* C23: once the app has loaded with ?token= or ?page=verify-email, the
\* verify-email screen is myTodos and the token of the URL has been submitted
\* for verification, whatever localStorage held.
C23_UrlTokenVerified ==
    (app.mounted /\ (url.hasToken \/ url.page = "verify-email")) =>
        /\ Screen(app) = "VerifyEmail"
        /\ url.token # "" =>
              \E c \in verifyCalls : c.token = url.token /\ c.origin = "url" /\ c.live

\* the login() calls made by the Login screen whose response arrives in this step
AnsweredFromLogin ==
    { c \in loginCalls : c.origin = "Login" /\ \A d \in loginCalls' : d.id # c.id }

C27_LogoutClearsEverything ==
    [][ /\ (app.currentUser # NoCurrentUser /\ app'.currentUser = NoCurrentUser) =>
              /\ app'.currentPage = "login"
              /\ ~getToken(storage').present
              /\ ~getCurrentEmail(storage').present
              /\ ~isLoggedIn(storage', now')
              /\ authHeaders(storage') = NullToken
        /\ (~getToken(storage).present /\ getToken(storage').present) =>
              /\ \E c \in loginCalls : \A d \in loginCalls' : d.id # c.id
              /\ Ok(resp')
        /\ (wire' # wire /\ ~getToken(storage').present) => wire'.authorization = NullToken
      ]_vars
\* the user who signed in last has logged out, and a request was built since
C27_Witness ==
    /\ resp.op = "login_response" /\ resp.origin = "Login" /\ resp.status = 200 /\ resp.json
    /\ app.currentUser = NoCurrentUser
    /\ Screen(app) = "SimpleUI"
    /\ storage = EmptyStorage
    /\ wire.op = "GET /todos" /\ wire.authorization = NullToken

\* C28: the screens inside Layout are rendered only with a currentUser,
\* AdminUsers and AdminTodos only with a currentUser whose role is admin,
\* and without a currentUser every page other than register, verify-email
\* and simple renders Login.
C28_ScreensGuarded ==
    /\ Screen(app) \in { "MyTodos", "Profile", "Settings", "AdminUsers", "AdminTodos" }
          => app.currentUser # NoCurrentUser
    /\ Screen(app) \in { "AdminUsers", "AdminTodos" } => app.currentUser.role = "admin"
    /\ (app.currentUser = NoCurrentUser
          /\ app.currentPage \notin { "register", "verify-email", "simple" })
          => Screen(app) = "Login"
C28_Witness ==
    /\ app.currentUser # NoCurrentUser
    /\ app.currentUser.role = "user"
    /\ app.currentPage = "users"
    /\ Screen(app) = "AccessDenied"

\* C26: a login() call whose response is not a 2xx leaves both keys of
\* localStorage exactly as they were; the keys are written only in a step
\* in which a login() call receives a 2xx response.
C26_FailedLoginKeepsStorage ==
    [][ /\ ( /\ \E c \in loginCalls : \A d \in loginCalls' : d.id # c.id
             /\ (resp'.status < 200 \/ resp'.status > 299) )
              => storage' = storage
        /\ ( \/ (getToken(storage').present /\ getToken(storage') # getToken(storage))
             \/ (getCurrentEmail(storage').present
                   /\ getCurrentEmail(storage') # getCurrentEmail(storage)) )
              => /\ \E c \in loginCalls : \A d \in loginCalls' : d.id # c.id
                 /\ resp'.status >= 200 /\ resp'.status <= 299
      ]_vars
\* a rejected login after a successful one: the first one's token is kept
C26_Witness ==
    /\ resp.op = "login_response" /\ resp.status = 403 /\ resp.email = AdminEmail
    /\ getToken(storage).present
    /\ getCurrentEmail(storage) = Item(<<97, 64, 120>>)

\* C29: between calls of login() and logout(), access_token and
\* current_email are both in localStorage or both absent.
C29_TokenAndEmailTogether ==
    getToken(storage).present <=> getCurrentEmail(storage).present
\* a logout after a successful login
C29_Witness ==
    /\ resp.op = "login_response" /\ resp.status = 200 /\ resp.json
    /\ loginCalls = {}
    /\ storage = EmptyStorage

\* the value of a query parameter for a boolean (String(b))
C25_Str(b) == IF b THEN "true" ELSE "false"
\* C25: the PATCH sent when the Edit Flags form is saved has a parameter for
\* exactly the flags whose switch differs from the value loaded for the
\* user: make_admin is the wanted is_admin, verify_email the wanted
\* email_verified, deactivate the negation of the wanted is_active.
C25_PatchCarriesExactlyTheChanges ==
    [][ resp'.op = "admin_update_user" =>
          LET sel == drawer[wire'.editor].selectedUser
              form == drawer'[wire'.editor].formData
          IN /\ wire'.target = sel.id
             /\ wire'.make_admin =
                  (IF form.is_admin # sel.is_admin THEN C25_Str(form.is_admin) ELSE "absent")
             /\ wire'.verify_email =
                  (IF form.email_verified # sel.email_verified
                   THEN C25_Str(form.email_verified) ELSE "absent")
             /\ wire'.deactivate =
                  (IF form.is_active # sel.is_active THEN C25_Str(~form.is_active)
                   ELSE "absent")
      ]_vars
\* a save that switched off is_active and switched on is_admin, nothing else
C25_Witness ==
    /\ resp.op = "admin_update_user" /\ resp.status = 200
    /\ wire.target = 2
    /\ wire.make_admin = "true" /\ wire.verify_email = "absent" /\ wire.deactivate = "true"
    /\ users[2].is_admin /\ ~users[2].is_active

\* C30: of the verification requests started from the form of the screen
\* that is myTodos, at most one is in flight; once the screen's status is
\* success it stays success while the screen is myTodos, the token field
\* keeps its text and no verification request is started.
C30_OneVerificationAtATime ==
    [][ /\ Cardinality({ c \in verifyCalls' : c.origin = "form" /\ c.live }) <= 1
        /\ (verifyScreen.mounted /\ verifyScreen.status = "success" /\ verifyScreen'.mounted) =>
              /\ verifyScreen'.status = "success"
              /\ verifyScreen'.tokenInput = verifyScreen.tokenInput
              /\ \A c \in verifyCalls' : \E d \in verifyCalls : d.id = c.id
      ]_vars
\* a token typed into the form was verified
C30_Witness ==
    /\ verifyScreen.mounted
    /\ verifyScreen.status = "success"
    /\ verifyScreen.tokenInput = " a1"
    /\ ~verifyScreen.loading

\* C24: when the update request of a toggle fails, the displayed done flag
\* of that todo is again what it was before the toggle and nothing else in
\* the displayed list changes: the same todos are shown in the same order,
\* and every other todo is shown as it was, whatever started or completed
\* while the request was in flight.
C24_ToggleRevertsOnlyItself ==
    [][ \A c \in todoCalls :
          ( /\ c.op = "toggle"
            /\ \A d \in todoCalls' : d.id # c.id
            /\ resp'.op = "todo_response" /\ ~resp'.ok )
          => /\ Len(myTodos'.todos) = Len(myTodos.todos)
             /\ \A i \in 1..Len(myTodos.todos) :
                   /\ myTodos'.todos[i].id = myTodos.todos[i].id
                   /\ myTodos.todos[i].id # c.todo => myTodos'.todos[i] = myTodos.todos[i]
                   /\ myTodos.todos[i].id = c.todo => myTodos'.todos[i].done = ~c.nextDone
      ]_vars

====
